---- MODULE Spec2Model ----
(***************************************************************************)
(* State-machine model of main.py (WhatCMS security scan tool).            *)
(*                                                                         *)
(* The program is one sequential process.  pc is its position; every       *)
(* outbound requests.get is one step whose response (an exception, or a    *)
(* status code / body / header set) is chosen by the environment.          *)
(* Strings that the program inspects or builds are sequences: a target is  *)
(* a sequence of characters, a finding is a sequence of tokens.            *)
(***************************************************************************)
EXTENDS Integers, Sequences, FiniteSets, TLC

VARIABLES target, apikey, pc, scheme, requests, r, data, cms, result,
          stdout, exitMsg, outFile

\* target, apikey : the arguments of run()
\* pc             : the position of the process
\* scheme         : index of the scheme normalize_target tries next
\* requests       : the URLs of the requests.get calls made so far, in order
\* r              : the outcome of the latest requests.get
\* data, cms      : the parsed body and the return value of get_cms_info
\* result         : run()'s report, {"target": ..., "messages": [...]}
\* stdout         : the lines printed
\* exitMsg        : the message of sys.exit, or the uncaught exception
\* outFile        : the value dumped to the output file, None before
vars == <<target, apikey, pc, scheme, requests, r, data, cms, result,
          stdout, exitMsg, outFile>>

(***************************************************************************)
(* Bounds of the model.                                                    *)
(***************************************************************************)
MaxHostLen == 1

(***************************************************************************)
(* Python values.                                                          *)
(***************************************************************************)
\* A str is a sequence of tokens (characters or longer pieces), a dict is a
\* function from its keys to values.
PyNone == [t |-> "none"]
PyStr(s) == [t |-> "str", v |-> s]
PyInt(n) == [t |-> "int", v |-> n]
PyDict(d) == [t |-> "dict", v |-> d]

\* Python truthiness of None / str / int, as used by `if name`, `if version`,
\* `if latest`.
Truthy(x) ==
    CASE x.t = "none" -> FALSE
      [] x.t = "str"  -> x.v # <<>>
      [] x.t = "int"  -> x.v # 0

\* dict.get(key): the value, or None when the key is missing.
DictGet(d, k) == IF k \in DOMAIN d THEN d[k] ELSE PyNone

\* dict.get(key, default)
DictGetDefault(d, k, dflt) == IF k \in DOMAIN d THEN d[k] ELSE dflt

(***************************************************************************)
(* Strings.                                                                *)
(***************************************************************************)
HTTP == <<"h", "t", "t", "p", ":", "/", "/">>
HTTPS == <<"h", "t", "t", "p", "s", ":", "/", "/">>

\* str.startswith(prefix)
StartsWith(s, p) == Len(s) >= Len(p) /\ SubSeq(s, 1, Len(p)) = p

\* variant: only the first prefix of the tuple is tested
HasScheme_HttpOnly(s) == StartsWith(s, HTTP)

\* target.startswith(('http://', 'https://'))
HasScheme(s) == StartsWith(s, HTTP) \/ StartsWith(s, HTTPS)

\* the tuple iterated by normalize_target
Schemes == <<HTTP, HTTPS>>

\* needle in haystack (contiguous), on token sequences
Contains(hay, needle) ==
    \E i \in 1..(Len(hay) - Len(needle) + 1) :
        SubSeq(hay, i, i + Len(needle) - 1) = needle

\* the literal "Invalid API key", as three words
InvalidKey == <<"Invalid", "API", "key">>

(***************************************************************************)
(* Inputs and environment responses.                                       *)
(***************************************************************************)
HostChars == {"a", "/"}

RECURSIVE SeqsUpTo(_)
SeqsUpTo(n) ==
    IF n = 0 THEN {<<>>}
    ELSE LET shorter == SeqsUpTo(n - 1)
         IN shorter \cup {Append(s, c) : s \in {x \in shorter : Len(x) = n - 1},
                                          c \in HostChars}

Hosts == SeqsUpTo(MaxHostLen) \ {<<>>}

Prefixes == { <<>>, HTTP, HTTPS,
              <<"H", "T", "T", "P", ":", "/", "/">>,
              <<"h", "t", "t", "p", ":", "/">> }

Targets == {p \o h : p \in Prefixes, h \in Hosts}

ApiKeys == {"key1"}

Statuses == {200, 399, 400, 404}

\* what one requests.get can do: raise RequestException, or return a response
\* with some status code
Raised == [exc |-> TRUE, status |-> 0, headers |-> {}]

Response(s, hs) == [exc |-> FALSE, status |-> s, headers |-> hs]

Outcomes == {Raised} \cup {Response(s, {}) : s \in Statuses}

\* JSON bodies of the fingerprinting service: every field is optional
EmptyDict == [k \in {} |-> PyNone]

Field(k, vals) == {EmptyDict} \cup {(k :> v) : v \in vals}

Names == {PyStr(<<"WordPress">>), PyStr(<<"Joomla">>), PyStr(<<"Drupal">>),
          PyStr(<<"wordpress">>)}

Versions == {PyStr(<<"6.0">>), PyStr(<<"6.1">>)}

Confidences == {PyInt(50), PyInt(79), PyInt(80), PyInt(95)}

Msgs == {PyStr(<<"Success">>), PyStr(InvalidKey),
         PyStr(<<"Error", ":">> \o InvalidKey \o <<"supplied">>)}

Bodies == {n @@ v @@ c @@ m : n \in Field("name", Names),
                              v \in Field("version", Versions),
                              c \in Field("confidence", Confidences),
                              m \in Field("msg", Msgs)}

(***************************************************************************)
(* Findings and progress lines.                                            *)
(***************************************************************************)
ConfidenceThreshold == 80

\* f"Detected CMS: {name} {version}" if version else f"Detected CMS: {name}"
DetectedMsg(name, version) ==
    IF Truthy(version)
    THEN <<"Detected CMS: ">> \o name.v \o <<" ">> \o version.v
    ELSE <<"Detected CMS: ">> \o name.v

\* f"WordPress version ({version}) is outdated. Latest: {latest}"
OutdatedMsg(version, latest) ==
    <<"WordPress version (">> \o version.v \o <<") is outdated. Latest: ">>
        \o latest.v

ReadmeMsg == <<"readme.html is accessible - version disclosure risk">>
WpConfigMsg == <<"wp-config.php is accessible - critical security risk">>
JoomlaConfigMsg ==
    <<"configuration.php is accessible - sensitive data exposure risk">>
JoomlaAdminMsg ==
    <<"/administrator/ directory is accessible - check access restrictions">>
ChangelogMsg == <<"CHANGELOG.txt is accessible - version disclosure risk">>
MissingCspMsg == <<"Missing Content-Security-Policy header">>
MissingXfoMsg == <<"Missing X-Frame-Options header">>

WordPressStart == <<"Starting WordPress security checks...">>
JoomlaStart == <<"Starting Joomla security checks...">>
DrupalStart == <<"Starting Drupal security checks...">>
HeadersStart == <<"Checking common security headers...">>

\* the URL of a request: f"{target}/readme.html" and the like
Url(base, path) == base \o <<path>>

\* f"https://whatcms.org/APIEndpoint?key={apikey}&url={target}"
ApiUrl(t, key) == <<"https://whatcms.org/APIEndpoint?key=", key, "&url=">> \o t

WpFeedUrl == <<"https://api.wordpress.org/core/version-check/1.7/">>

(***************************************************************************)
(* Initial state: main() has parsed its arguments and is about to call     *)
(* run(target, apikey).                                                    *)
(***************************************************************************)
Init ==
    /\ target \in Targets
    /\ apikey \in ApiKeys
    /\ pc = "normalize"
    /\ scheme = 1
    /\ requests = <<>>
    /\ r = PyNone
    /\ data = PyNone
    /\ cms = PyNone
    /\ result = PyNone
    /\ stdout = <<>>
    /\ exitMsg = ""
    /\ outFile = PyNone

(***************************************************************************)
(* normalize_target, and the construction of result in run().              *)
(***************************************************************************)
\* run() lines 129-132, executed when normalize_target returns t
NewResult(t) == PyDict([target |-> t, messages |-> <<>>])

\* target already has a scheme: returned unchanged, no request
NormalizePassThrough ==
    /\ pc = "normalize"
    /\ HasScheme(target)
    /\ result' = NewResult(target)
    /\ pc' = "get_cms_info"
    /\ UNCHANGED <<target, apikey, scheme, requests, r, data, cms, stdout,
                   exitMsg, outFile>>

\* variant: `<= 400` in place of `< 400`
ProbeOk_UpTo400(resp) == ~resp.exc /\ resp.status <= 400

\* r.status_code < 400
ProbeOk(resp) == ~resp.exc /\ resp.status < 400

\* one iteration of `for scheme in ('http://', 'https://')`
NormalizeProbe ==
    /\ pc = "normalize"
    /\ ~HasScheme(target)
    /\ scheme <= Len(Schemes)
    /\ requests' = Append(requests, Schemes[scheme] \o target)
    /\ r' \in Outcomes
    /\ IF ProbeOk(r')
       THEN /\ result' = NewResult(Schemes[scheme] \o target)
            /\ pc' = "get_cms_info"
            /\ scheme' = scheme
       ELSE /\ scheme' = scheme + 1
            /\ UNCHANGED <<result, pc>>
    /\ UNCHANGED <<target, apikey, data, cms, stdout, exitMsg, outFile>>

\* the loop is exhausted: sys.exit("Connection Error")
NormalizeExit ==
    /\ pc = "normalize"
    /\ ~HasScheme(target)
    /\ scheme > Len(Schemes)
    /\ pc' = "exited"
    /\ exitMsg' = "Connection Error"
    /\ UNCHANGED <<target, apikey, scheme, requests, r, data, cms, result,
                   stdout, outFile>>

(***************************************************************************)
(* get_cms_info                                                            *)
(***************************************************************************)
\* variant: msg compared for equality instead of containment
IsInvalidKey_Exact(d) == "msg" \in DOMAIN d /\ d["msg"].v = InvalidKey

\* "msg" in data and "Invalid API key" in data["msg"]
IsInvalidKey(d) == "msg" \in DOMAIN d /\ Contains(d["msg"].v, InvalidKey)

\* the value get_cms_info returns for a parsed body
CmsOf(d) ==
    IF IsInvalidKey(d)
    THEN PyStr(InvalidKey)
    ELSE PyDict([name |-> DictGet(d, "name"),
                 version |-> DictGet(d, "version"),
                 confidence |-> DictGet(d, "confidence")])

\* variant: only error statuses are fatal
ApiFailed_ErrorsOnly(resp) == resp.status >= 400

\* r.status_code != 200
ApiFailed(resp) == resp.status # 200

\* The request is not inside a try block and r.json() is not guarded: a
\* network failure or a body that is not JSON ends the process with a
\* traceback ("crashed").  A status other than 200 is the fatal exit.
GetCmsInfo ==
    /\ pc = "get_cms_info"
    /\ requests' = Append(requests, ApiUrl(result.v.target, apikey))
    /\ r' \in Outcomes
    /\ IF r'.exc
       THEN /\ pc' = "crashed"
            /\ exitMsg' = "RequestException"
            /\ UNCHANGED <<data, cms>>
       ELSE IF ApiFailed(r')
       THEN /\ pc' = "exited"
            /\ exitMsg' = "API request failed"
            /\ UNCHANGED <<data, cms>>
       ELSE \/ /\ pc' = "crashed"
               /\ exitMsg' = "JSONDecodeError"
               /\ UNCHANGED <<data, cms>>
            \/ \E d \in Bodies :
               /\ data' = PyDict(d)
               /\ cms' = CmsOf(d)
               /\ pc' = "run_cms"
               /\ UNCHANGED exitMsg
    /\ UNCHANGED <<target, apikey, scheme, result, stdout, outFile>>

(***************************************************************************)
(* run(): the branches after get_cms_info                                  *)
(***************************************************************************)
\* messages.append(msg) on result["messages"]
AppendMsg(res, msg) ==
    PyDict([res.v EXCEPT !.messages = Append(@, msg)])

\* cms == "Invalid API key": the minimal report, run() returns
RunInvalidKey ==
    /\ pc = "run_cms"
    /\ cms = PyStr(InvalidKey)
    /\ result' = PyDict([target |-> result.v.target, messages |-> <<cms.v>>])
    /\ pc' = "main_write"
    /\ UNCHANGED <<target, apikey, scheme, requests, r, data, cms, stdout,
                   exitMsg, outFile>>

\* cms.get("confidence", 0): the key is always in the dict that get_cms_info
\* builds, so the default is never taken
CmsConfidence(c) == DictGetDefault(c.v, "confidence", PyInt(0))

\* `name and confidence >= 80`: comparing None with an int raises TypeError
DetectRaises(c) ==
    Truthy(DictGet(c.v, "name")) /\ CmsConfidence(c).t # "int"

\* variant: `>` in place of `>=`
Detects_Strict(c) ==
    /\ Truthy(DictGet(c.v, "name"))
    /\ CmsConfidence(c).t = "int"
    /\ CmsConfidence(c).v > ConfidenceThreshold

\* name and confidence >= 80, when it does not raise
Detects(c) ==
    /\ Truthy(DictGet(c.v, "name"))
    /\ CmsConfidence(c).t = "int"
    /\ CmsConfidence(c).v >= ConfidenceThreshold

\* lines 143-150
RunDetect ==
    /\ pc = "run_cms"
    /\ cms # PyStr(InvalidKey)
    /\ LET name == DictGet(cms.v, "name")
           version == DictGet(cms.v, "version")
       IN  IF DetectRaises(cms)
           THEN /\ pc' = "crashed"
                /\ exitMsg' = "TypeError"
                /\ UNCHANGED <<result, stdout>>
           ELSE /\ pc' = "dispatch"
                /\ UNCHANGED exitMsg
                /\ IF Detects(cms)
                   THEN /\ result' = AppendMsg(result, DetectedMsg(name, version))
                        /\ stdout' = Append(stdout, DetectedMsg(name, version))
                   ELSE UNCHANGED <<result, stdout>>
    /\ UNCHANGED <<target, apikey, scheme, requests, r, data, cms, outFile>>

\* variant: the name is matched without regard to case
Dispatch_AnyCase(name) ==
    CASE name \in {PyStr(<<"WordPress">>), PyStr(<<"wordpress">>)}
                                         -> "wp_readme"
      [] name = PyStr(<<"Joomla">>)    -> "joomla_config"
      [] name = PyStr(<<"Drupal">>)    -> "drupal_changelog"
      [] OTHER                         -> "headers"

\* the if / elif / elif on name: the checker to enter ("headers" when none)
Dispatch(name) ==
    CASE name = PyStr(<<"WordPress">>) -> "wp_readme"
      [] name = PyStr(<<"Joomla">>)    -> "joomla_config"
      [] name = PyStr(<<"Drupal">>)    -> "drupal_changelog"
      [] OTHER                         -> "headers"

\* the first line of the checker entered
StartLine(p) ==
    CASE p = "wp_readme"        -> <<WordPressStart>>
      [] p = "joomla_config"    -> <<JoomlaStart>>
      [] p = "drupal_changelog" -> <<DrupalStart>>
      [] OTHER                  -> <<>>

\* lines 152-157 and the entry of the selected checker
RunDispatch ==
    /\ pc = "dispatch"
    /\ pc' = Dispatch(DictGet(cms.v, "name"))
    /\ stdout' = stdout \o StartLine(pc')
    /\ UNCHANGED <<target, apikey, scheme, requests, r, data, cms, result,
                   exitMsg, outFile>>

(***************************************************************************)
(* The CMS-specific checkers.  Every probe is the same try block: a GET,   *)
(* a finding on status 200, RequestException swallowed.                    *)
(***************************************************************************)
\* variant: every non-error status counts as accessible
ProbeHits_Below400(resp) == ~resp.exc /\ resp.status < 400

\* does a probe with outcome resp append its finding?
ProbeHits(resp) == ~resp.exc /\ resp.status = 200

Probe(here, path, msg, next) ==
    /\ pc = here
    /\ requests' = Append(requests, Url(result.v.target, path))
    /\ r' \in Outcomes
    /\ IF ProbeHits(r')
       THEN /\ result' = AppendMsg(result, msg)
            /\ stdout' = Append(stdout, msg)
       ELSE UNCHANGED <<result, stdout>>
    /\ pc' = next
    /\ UNCHANGED <<target, apikey, scheme, data, cms, exitMsg, outFile>>

CheckWordpressReadme ==
    Probe("wp_readme", "/readme.html", ReadmeMsg, "wp_config")

CheckWordpressConfig ==
    Probe("wp_config", "/wp-config.php", WpConfigMsg, "wp_version")

CheckJoomlaConfig ==
    Probe("joomla_config", "/configuration.php", JoomlaConfigMsg, "joomla_admin")

CheckJoomlaAdmin ==
    Probe("joomla_admin", "/administrator/", JoomlaAdminMsg, "headers")

CheckDrupalChangelog ==
    Probe("drupal_changelog", "/CHANGELOG.txt", ChangelogMsg, "headers")

(***************************************************************************)
(* check_wordpress: the version-freshness step (lines 65-74)               *)
(***************************************************************************)
LatestVersions == {PyStr(<<"6.0">>), PyStr(<<"6.1">>)}

\* the shapes of the feed's JSON body: no offers field, an empty offers
\* list, a first offer with or without `current`
FeedBodies ==
    {EmptyDict} \cup
    {("offers" :> o) : o \in {<<>>, <<EmptyDict>>} \cup
                             {<<("current" :> v)>> : v \in LatestVersions}}

\* what .json() gives for the feed's response: a parsed body, or a body
\* that is not JSON
FeedJson ==
    {[ok |-> FALSE, body |-> EmptyDict]} \cup
    {[ok |-> TRUE, body |-> b] : b \in FeedBodies}

\* wp_api.get("offers", [{}])
FeedOffers(body) == DictGetDefault(body, "offers", <<EmptyDict>>)

\* [0] on an empty list raises IndexError, which `except
\* requests.RequestException` does not catch
FeedRaises(body) == Len(FeedOffers(body)) = 0

\* wp_api.get("offers", [{}])[0].get("current")
FeedLatest(body) == DictGet(FeedOffers(body)[1], "current")

\* latest and version != latest
IsOutdated(version, latest) == Truthy(latest) /\ version # latest

\* .json() on a body that is not JSON raises requests' JSONDecodeError, a
\* RequestException from requests 2.27 on and a plain ValueError before; the
\* repository pins no version, so both are possible.
BadJsonIsCaught == BOOLEAN

CheckWordpressVersion ==
    /\ pc = "wp_version"
    /\ LET version == DictGet(cms.v, "version") IN
       IF ~Truthy(version)
       THEN /\ pc' = "headers"
            /\ UNCHANGED <<requests, r, result, stdout, exitMsg>>
       ELSE /\ requests' = Append(requests, WpFeedUrl)
            /\ r' \in Outcomes
            /\ IF r'.exc
               THEN /\ pc' = "headers"
                    /\ UNCHANGED <<result, stdout, exitMsg>>
               ELSE \E f \in FeedJson :
                    \/ /\ ~f.ok
                       /\ \E caught \in BadJsonIsCaught :
                            IF caught
                            THEN /\ pc' = "headers"
                                 /\ UNCHANGED exitMsg
                            ELSE /\ pc' = "crashed"
                                 /\ exitMsg' = "JSONDecodeError"
                       /\ UNCHANGED <<result, stdout>>
                    \/ /\ f.ok
                       /\ FeedRaises(f.body)
                       /\ pc' = "crashed"
                       /\ exitMsg' = "IndexError"
                       /\ UNCHANGED <<result, stdout>>
                    \/ /\ f.ok
                       /\ ~FeedRaises(f.body)
                       /\ pc' = "headers"
                       /\ UNCHANGED exitMsg
                       /\ IF IsOutdated(version, FeedLatest(f.body))
                          THEN /\ result' = AppendMsg(result,
                                      OutdatedMsg(version, FeedLatest(f.body)))
                               /\ stdout' = Append(stdout,
                                      OutdatedMsg(version, FeedLatest(f.body)))
                          ELSE UNCHANGED <<result, stdout>>
    /\ UNCHANGED <<target, apikey, scheme, data, cms, outFile>>

(***************************************************************************)
(* check_security_headers                                                  *)
(***************************************************************************)
\* r.headers is case-insensitive: names are compared folded to lower case
Lower ==
    ("Content-Security-Policy" :> "content-security-policy") @@
    ("content-security-policy" :> "content-security-policy") @@
    ("X-Frame-Options" :> "x-frame-options")

\* the header names a response may carry
HeaderNames == DOMAIN Lower

\* key in r.headers
HeaderIn(key, headers) == \E h \in headers : Lower[h] = Lower[key]

\* the findings of one response, in the order the code appends them
HeaderFindings(headers) ==
    (IF ~HeaderIn("Content-Security-Policy", headers)
     THEN <<MissingCspMsg>> ELSE <<>>) \o
    (IF ~HeaderIn("X-Frame-Options", headers)
     THEN <<MissingXfoMsg>> ELSE <<>>)

\* the responses to the header check's request: any status, any headers
HeaderOutcomes ==
    {Raised} \cup {Response(s, hs) : s \in Statuses, hs \in SUBSET HeaderNames}

\* the whole function and run()'s return: RequestException is swallowed, the
\* status code is not looked at
CheckSecurityHeaders ==
    /\ pc = "headers"
    /\ requests' = Append(requests, result.v.target)
    /\ r' \in HeaderOutcomes
    /\ IF r'.exc
       THEN /\ result' = result
            /\ stdout' = Append(stdout, HeadersStart)
       ELSE /\ result' = PyDict([result.v EXCEPT
                            !.messages = @ \o HeaderFindings(r'.headers)])
            /\ stdout' = Append(stdout, HeadersStart)
                            \o HeaderFindings(r'.headers)
    /\ pc' = "main_write"
    /\ UNCHANGED <<target, apikey, scheme, data, cms, exitMsg, outFile>>

(***************************************************************************)
(* main(): the output file and the final prints (lines 175-182).  The text *)
(* written and printed is the JSON dump of result; outFile holds the value *)
(* dumped.                                                                 *)
(***************************************************************************)
MainWrite ==
    /\ pc = "main_write"
    /\ outFile' = result
    /\ stdout' = stdout \o << <<"RESULTS:">>, <<"Results saved to">> >>
    /\ pc' = "done"
    /\ UNCHANGED <<target, apikey, scheme, requests, r, data, cms, result,
                   exitMsg>>

Next ==
    \/ NormalizePassThrough
    \/ NormalizeProbe
    \/ NormalizeExit
    \/ GetCmsInfo
    \/ RunInvalidKey
    \/ RunDetect
    \/ RunDispatch
    \/ CheckWordpressReadme
    \/ CheckWordpressConfig
    \/ CheckWordpressVersion
    \/ CheckJoomlaConfig
    \/ CheckJoomlaAdmin
    \/ CheckDrupalChangelog
    \/ CheckSecurityHeaders
    \/ MainWrite

Spec == Init /\ [][Next]_vars

(***************************************************************************)
(* Vocabulary of the properties.                                           *)
(***************************************************************************)
\* the findings collected so far
Messages == IF result.t = "dict" THEN result.v.messages ELSE <<>>

Count(seq, x) == Cardinality({i \in DOMAIN seq : seq[i] = x})

LastRequest == IF requests = <<>> THEN <<>> ELSE requests[Len(requests)]

\* s begins with http:// or https://
SchemePrefixed(s) ==
    \/ Len(s) >= 7 /\ SubSeq(s, 1, 7) = <<"h", "t", "t", "p", ":", "/", "/">>
    \/ Len(s) >= 8 /\ SubSeq(s, 1, 8) = <<"h", "t", "t", "p", "s", ":", "/", "/">>

\* the two forms normalize_target can probe
HttpForm == <<"h", "t", "t", "p", ":", "/", "/">> \o target
HttpsForm == <<"h", "t", "t", "p", "s", ":", "/", "/">> \o target

\* the fingerprinting service answered 200 with a JSON body ...
Answered == data.t = "dict"

\* ... whose msg field signals an invalid API key
SignalsInvalidKey == Answered /\ "msg" \in DOMAIN data.v
                              /\ Contains(data.v["msg"].v, InvalidKey)

\* ... or which identifies the site (the run passed identification)
Identified == Answered /\ ~SignalsInvalidKey

HasField(k) == Answered /\ k \in DOMAIN data.v

NameIs(s) == HasField("name") /\ data.v["name"] = PyStr(<<s>>)

\* the run has ended: normally, by sys.exit, or by an uncaught exception
Ended == pc \in {"done", "exited", "crashed"}

\* the process is past the if / elif / elif on the CMS name
Dispatched ==
    \/ pc \in {"wp_readme", "wp_config", "wp_version", "joomla_config",
               "joomla_admin", "drupal_changelog", "headers"}
    \/ pc \in {"main_write", "done"} /\ Identified
    \/ pc = "crashed" /\ LastRequest = WpFeedUrl

CheckerStarts == {WordPressStart, JoomlaStart, DrupalStart}

Printed(line) == \E i \in DOMAIN stdout : stdout[i] = line

(***************************************************************************)
(* C1.  A run that ends fatally -- a target without scheme none of whose   *)
(* two probes gave a status below 400, or a fingerprinting response whose  *)
(* status is not 200 -- has exited before the output file is written, and  *)
(* no step follows the exit.                                               *)
(***************************************************************************)
C1_Fatal ==
    /\ pc = "exited" =>
          /\ outFile = PyNone
          /\ ~Printed(<<"RESULTS:">>)
          /\ exitMsg \in {"Connection Error", "API request failed"}
    \* the second probe was made and failed, as the first had
    /\ (~SchemePrefixed(target) /\ requests = <<HttpForm, HttpsForm>>
            /\ (r.exc \/ r.status >= 400)) =>
          /\ result = PyNone /\ outFile = PyNone
          /\ \/ pc = "normalize"
             \/ pc = "exited" /\ exitMsg = "Connection Error"
    \* the service answered with a status other than 200
    /\ (result.t = "dict" /\ LastRequest = ApiUrl(result.v.target, apikey)
            /\ ~r.exc /\ r.status # 200) =>
          pc = "exited" /\ exitMsg = "API request failed"

C1_FatalBeforeOutput == []C1_Fatal /\ [][pc # "exited"]_vars

C1_Witness ==
    /\ pc = "exited"
    /\ exitMsg = "Connection Error"
    /\ Len(requests) = 2
    /\ r.status = 404
    /\ outFile = PyNone

(***************************************************************************)
(* C2.  After a 200 answer whose msg signals an invalid API key the report *)
(* is the normalized target with the single message "Invalid API key"; no  *)
(* checker, feed request or header check runs (the API call stays the last *)
(* request), and the run ends normally with that report written.           *)
(***************************************************************************)
C2_InvalidKeyMinimalReport ==
    SignalsInvalidKey =>
        /\ pc \in {"run_cms", "main_write", "done"}
        /\ LastRequest = ApiUrl(result.v.target, apikey)
        /\ \A line \in CheckerStarts \cup {HeadersStart} : ~Printed(line)
        /\ result.v.target = IF SchemePrefixed(target) THEN target
                             ELSE requests[Len(requests) - 1]
        /\ pc # "run_cms" => result.v.messages = <<InvalidKey>>
        /\ pc = "done" => outFile = result

C2_Witness ==
    /\ pc = "done"
    /\ HasField("msg")
    /\ data.v["msg"] = PyStr(<<"Error", ":">> \o InvalidKey \o <<"supplied">>)
    /\ HasField("name")
    /\ outFile.v.messages = <<InvalidKey>>

(***************************************************************************)
(* C3.  A fingerprinting response without the confidence field is treated  *)
(* as confidence 0: the run does not abort, has no "Detected CMS" finding, *)
(* and goes on to the dispatch and the header check.                       *)
(***************************************************************************)
IsDetectedMsg(m) == Len(m) > 0 /\ m[1] = "Detected CMS: "

C3_MissingConfidenceIsZero ==
    (Identified /\ ~HasField("confidence")) =>
        /\ pc # "crashed"
        /\ \A i \in DOMAIN Messages : ~IsDetectedMsg(Messages[i])
        /\ pc \in {"main_write", "done"} => Printed(HeadersStart)

(***************************************************************************)
(* C4.  Once the detection step is over, the messages hold the finding     *)
(* "Detected CMS: {name} {version}" (version left out when absent) exactly *)
(* once if name is present and confidence >= 80, and no such finding       *)
(* otherwise; past the dispatch, the checker entered is the one of the     *)
(* name, whatever the confidence.                                          *)
(***************************************************************************)
ExpectedDetection ==
    IF HasField("version")
    THEN <<"Detected CMS: ">> \o data.v["name"].v \o <<" ">>
             \o data.v["version"].v
    ELSE <<"Detected CMS: ">> \o data.v["name"].v

StartOf(n) ==
    CASE n = "WordPress" -> WordPressStart
      [] n = "Joomla"    -> JoomlaStart
      [] n = "Drupal"    -> DrupalStart

C4_DetectionFinding ==
    (Identified /\ pc # "run_cms") =>
        /\ IF /\ HasField("name")
              /\ HasField("confidence")
              /\ data.v["confidence"].v >= 80
           THEN /\ Count(Messages, ExpectedDetection) = 1
                /\ Cardinality({i \in DOMAIN Messages :
                                    IsDetectedMsg(Messages[i])}) = 1
           ELSE \A i \in DOMAIN Messages : ~IsDetectedMsg(Messages[i])
        /\ Dispatched =>
              \A n \in {"WordPress", "Joomla", "Drupal"} :
                  NameIs(n) => Count(stdout, StartOf(n)) = 1

C4_Witness ==
    /\ pc = "done"
    /\ NameIs("WordPress")
    /\ HasField("confidence")
    /\ data.v["confidence"] = PyInt(50)
    /\ Printed(WordPressStart)
    /\ \A i \in DOMAIN Messages : ~IsDetectedMsg(Messages[i])

(***************************************************************************)
(* C5.  At most one CMS-specific checker is entered, at most once; every   *)
(* request to a CMS-specific path belongs to the checker of the reported   *)
(* name and is made at most once; past the dispatch, the checker of the    *)
(* name has been entered when the name is exactly WordPress, Joomla or     *)
(* Drupal, and none otherwise.                                             *)
(***************************************************************************)
PathsOf(n) ==
    CASE n = "WordPress" -> {"/readme.html", "/wp-config.php"}
      [] n = "Joomla"    -> {"/configuration.php", "/administrator/"}
      [] n = "Drupal"    -> {"/CHANGELOG.txt"}

PathRequests(path) ==
    IF result.t = "dict"
    THEN Count(requests, result.v.target \o <<path>>)
    ELSE 0

C5_OneCheckerByExactName ==
    /\ Cardinality({i \in DOMAIN stdout : stdout[i] \in CheckerStarts}) <= 1
    /\ \A n \in {"WordPress", "Joomla", "Drupal"} :
          /\ Printed(StartOf(n)) => Identified /\ NameIs(n)
          /\ \A path \in PathsOf(n) :
                /\ PathRequests(path) <= 1
                /\ PathRequests(path) = 1 => Printed(StartOf(n))
          /\ (Dispatched /\ NameIs(n)) => Printed(StartOf(n))
    /\ Count(requests, WpFeedUrl) <= 1
    /\ Count(requests, WpFeedUrl) = 1 => Printed(WordPressStart)

C5_Witness ==
    /\ pc = "done"
    /\ NameIs("Joomla")
    /\ Count(stdout, JoomlaStart) = 1
    /\ PathRequests("/configuration.php") = 1
    /\ PathRequests("/administrator/") = 1

(***************************************************************************)
(* C6.  Every probe of a checker's path list is issued whatever the        *)
(* earlier probes returned: a probe step requests its path, appends its    *)
(* finding if and only if the response has status 200 (nothing on another  *)
(* status or on a network failure), raises nothing and passes on to the    *)
(* next probe, or past the list to the rest of the run; a checker that is  *)
(* over has requested each of its paths once.                              *)
(***************************************************************************)
ProbePcs == {"wp_readme", "wp_config", "joomla_config", "joomla_admin",
             "drupal_changelog"}

PathAt(p) ==
    CASE p = "wp_readme"        -> "/readme.html"
      [] p = "wp_config"        -> "/wp-config.php"
      [] p = "joomla_config"    -> "/configuration.php"
      [] p = "joomla_admin"     -> "/administrator/"
      [] p = "drupal_changelog" -> "/CHANGELOG.txt"

FindingAt(p) ==
    CASE p = "wp_readme"        -> ReadmeMsg
      [] p = "wp_config"        -> WpConfigMsg
      [] p = "joomla_config"    -> JoomlaConfigMsg
      [] p = "joomla_admin"     -> JoomlaAdminMsg
      [] p = "drupal_changelog" -> ChangelogMsg

AfterProbe(p) ==
    CASE p = "wp_readme"        -> "wp_config"
      [] p = "wp_config"        -> "wp_version"
      [] p = "joomla_config"    -> "joomla_admin"
      [] p = "joomla_admin"     -> "headers"
      [] p = "drupal_changelog" -> "headers"

C6_ProbeStep ==
    pc \in ProbePcs =>
        /\ requests' = Append(requests, result.v.target \o <<PathAt(pc)>>)
        /\ pc' = AfterProbe(pc)
        /\ exitMsg' = exitMsg
        /\ result'.v.target = result.v.target
        /\ result'.v.messages =
              IF ~r'.exc /\ r'.status = 200
              THEN Append(result.v.messages, FindingAt(pc))
              ELSE result.v.messages

C6_AllProbed ==
    \A n \in {"WordPress", "Joomla", "Drupal"} :
        (NameIs(n) /\ Identified /\ Dispatched /\ pc \notin ProbePcs) =>
            \A path \in PathsOf(n) : PathRequests(path) = 1

C6_IndependentProbes == []C6_AllProbed /\ [][C6_ProbeStep]_vars

\* the first Joomla probe failed on the network or missed, the second hit
C6_Witness ==
    /\ pc = "headers"
    /\ NameIs("Joomla")
    /\ r.status = 200
    /\ PathRequests("/configuration.php") = 1
    /\ Count(Messages, JoomlaConfigMsg) = 0
    /\ Count(Messages, JoomlaAdminMsg) = 1

(***************************************************************************)
(* C7.  In the version-freshness step no failure of the feed request or of *)
(* the parsing of its body escapes check_wordpress, and an "outdated"      *)
(* finding names the reported version and a latest version different from  *)
(* it.                                                                     *)
(***************************************************************************)
IsOutdatedMsg(m) == Len(m) > 0 /\ m[1] = "WordPress version ("

C7_FeedFailuresIgnored ==
    /\ LastRequest = WpFeedUrl => pc # "crashed"
    /\ \A i \in DOMAIN Messages :
          IsOutdatedMsg(Messages[i]) =>
              /\ HasField("version")
              /\ \E latest \in {<<"6.0">>, <<"6.1">>} \ {data.v["version"].v} :
                    Messages[i] = <<"WordPress version (">>
                                     \o data.v["version"].v
                                     \o <<") is outdated. Latest: ">>
                                     \o latest

(***************************************************************************)
(* C8.  A target that begins with http:// or https:// is the report's      *)
(* target unchanged, and no scheme probe is made for it; the target of the *)
(* report, and of the file written, always begins with http:// or          *)
(* https://.                                                               *)
(***************************************************************************)
C8_SchemePassThrough ==
    /\ SchemePrefixed(target) =>
          /\ result.t = "dict" => result.v.target = target
          /\ pc \in {"normalize", "get_cms_info"} => requests = <<>>
          /\ requests # <<>> => requests[1] = ApiUrl(target, apikey)
    /\ result.t = "dict" => SchemePrefixed(result.v.target)
    /\ outFile.t = "dict" => SchemePrefixed(outFile.v.target)

C8_Witness ==
    /\ pc = "done"
    /\ StartsWith(target, HTTPS)
    /\ outFile.v.target = target
    /\ requests[1] = ApiUrl(target, apikey)

(***************************************************************************)
(* C9.  For a target without scheme the probes are http://<target> and     *)
(* then https://<target>, each at most once; a probe step returns its own  *)
(* scheme-prefixed form exactly when its response has a status below 400,  *)
(* so the http form wins when both would succeed (the https probe is then  *)
(* never made) and the https form is returned when only it succeeds.       *)
(***************************************************************************)
C9_ProbeOrder ==
    ~SchemePrefixed(target) =>
        /\ pc = "normalize" =>
              /\ result = PyNone
              /\ requests = SubSeq(<<HttpForm, HttpsForm>>, 1, Len(requests))
        /\ result.t = "dict" =>
              \/ /\ result.v.target = HttpForm
                 /\ requests[1] = HttpForm
                 /\ Len(requests) >= 2 => requests[2] = ApiUrl(HttpForm, apikey)
              \/ /\ result.v.target = HttpsForm
                 /\ requests[1] = HttpForm
                 /\ requests[2] = HttpsForm
                 /\ Len(requests) >= 3 => requests[3] = ApiUrl(HttpsForm, apikey)

C9_ProbeStep ==
    (pc = "normalize" /\ ~SchemePrefixed(target) /\ Len(requests) < 2) =>
        /\ requests' = Append(requests, IF requests = <<>> THEN HttpForm
                                        ELSE HttpsForm)
        /\ IF ~r'.exc /\ r'.status < 400
           THEN /\ result'.t = "dict"
                /\ result'.v.target = requests'[Len(requests')]
                /\ pc' = "get_cms_info"
           ELSE /\ result' = PyNone
                /\ pc' = "normalize"

C9_FirstAnsweringScheme == []C9_ProbeOrder /\ [][C9_ProbeStep]_vars

\* only the https probe succeeded
C9_Witness ==
    /\ pc = "done"
    /\ ~SchemePrefixed(target)
    /\ outFile.v.target = HttpsForm
    /\ requests[1] = HttpForm
    /\ requests[2] = HttpsForm

(***************************************************************************)
(* C10.  Every run that passed identification makes the header check       *)
(* exactly once, after any CMS-specific checker: the run does not end      *)
(* without it, its findings (one per header among Content-Security-Policy  *)
(* and X-Frame-Options absent from the response, none on a network         *)
(* failure) are the last messages, and the run goes on to write the        *)
(* report.                                                                 *)
(***************************************************************************)
ExpectedHeaderFindings ==
    IF r.exc THEN <<>>
    ELSE (IF \A h \in r.headers : Lower[h] # "content-security-policy"
          THEN <<MissingCspMsg>> ELSE <<>>) \o
         (IF \A h \in r.headers : Lower[h] # "x-frame-options"
          THEN <<MissingXfoMsg>> ELSE <<>>)

C10_HeaderCheckAlwaysRuns ==
    /\ Count(stdout, HeadersStart) <= 1
    /\ (Identified /\ Ended) => Count(stdout, HeadersStart) = 1
    /\ (Identified /\ pc \in {"main_write", "done"}) =>
          /\ Len(Messages) >= Len(ExpectedHeaderFindings)
          /\ SubSeq(Messages,
                    Len(Messages) - Len(ExpectedHeaderFindings) + 1,
                    Len(Messages)) = ExpectedHeaderFindings
          /\ Count(Messages, MissingCspMsg) + Count(Messages, MissingXfoMsg)
                = Len(ExpectedHeaderFindings)

====
